---- MODULE Spec2Model ----
(***************************************************************************)
(* Model of the ClaClo teacher back end (src/app.py): a Flask application  *)
(* whose handlers read and write five tables (users, courses, assignments, *)
(* enrollments, submissions) and one upload directory.                     *)
(*                                                                         *)
(* Every handler is a pure operator  handler(d, ...)  from the store d and *)
(* the request's inputs to [db |-> the store after the request's commit,   *)
(* resp |-> the response].  An action of the state machine is one request: *)
(* it picks the inputs, applies the handler to the current store and       *)
(* records the request and the response.                                   *)
(*                                                                         *)
(* Modelling decisions:                                                    *)
(*  - a table is a set of rows (records with an id); a new row gets the    *)
(*    id  max id + 1  (integer primary key); .first() is the row with the  *)
(*    least id among the matching ones;                                    *)
(*  - foreign keys are declared in the models but the handlers never check *)
(*    them and the store does not reject a dangling reference;             *)
(*  - the columns with a clock default (enroll_date, submission_date) are  *)
(*    left out: no handler reads them;                                     *)
(*  - a nullable value is a sequence of length at most one (None == <<>>); *)
(*  - a JSON body is a function from the keys it holds to their values;    *)
(*  - a bearer token is what create_access_token makes of a user id; the   *)
(*    tokens a client can present are those login issues, i.e. the tokens  *)
(*    of the stored users (tokens do not expire, users are never deleted). *)
(***************************************************************************)
EXTENDS Integers, Sequences, FiniteSets, TLC

VARIABLES
    users, courses, assignments, enrollments, submissions,  \* the tables
    files,        \* the upload directory: file name -> content
    req, resp,    \* the last request and its response
    credentials,  \* history: user id -> the password its user registered with
    uploaders,    \* history: file name -> the courses it was uploaded for
    inflight,     \* worker -> the register request it has checked and not yet committed
    created,      \* history: email -> the number of registrations answered 201
    twin          \* a second run of the same requests: [db |-> store, resp |-> response]

vars == <<users, courses, assignments, enrollments, submissions, files,
          req, resp, credentials, uploaders, inflight, created, twin>>

\* ------------------------------------------------------------------ bounds
MaxCourses == 2
MaxAssignments == 1
MaxEnrollments == 2
MaxSubmissions == 1
\* rows of courses, assignments, enrollments and submissions, and stored
\* files, together
MaxRows == 3

\* ------------------------------------------------------------ value domains
None == <<>>
Some(v) == <<v>>

\* ------------------------------------------------------------------ helpers
Max(S) == CHOOSE x \in S : \A y \in S : y <= x
Min(S) == CHOOSE x \in S : \A y \in S : x <= y

Ids(table) == {r.id : r \in table}
NextId(table) == IF table = {} THEN 1 ELSE Max(Ids(table)) + 1

\* Query.first(): the matching row with the least id, None when there is none.
First(rows) == IF rows = {} THEN None
               ELSE Some(CHOOSE r \in rows : r.id = Min(Ids(rows)))

Has(data, keys) == keys \subseteq DOMAIN data
Get(data, k) == IF k \in DOMAIN data THEN data[k] ELSE None

Response(status, body) == [status |-> status, body |-> body]
Message(status, text) == Response(status, [message |-> text])
Result(d, r) == [db |-> d, resp |-> r]

\* abort(400, description=...): the framework's error page with the description.
Abort400(text) == Response(400, [description |-> text])
\* An exception no handler catches (KeyError, ValueError): errorhandler(500).
server_error == Message(500, "Server error")
not_found == Message(404, "Resource not found")

Store == [users |-> users, courses |-> courses, assignments |-> assignments,
          enrollments |-> enrollments, submissions |-> submissions, files |-> files]

\* ------------------------------------------------------- identity and auth
\* generate_password_hash: method$salt$digest, never the password itself;
\* check_password_hash hashes the candidate with the stored salt and compares.
Salts == {"s1"}
Digest(salt, password) == <<"sha256", salt, password>>
generate_password_hash(password, salt) == <<"pbkdf2:sha256", salt, Digest(salt, password)>>
\* Mutant: the candidate is never compared with the stored digest.
check_password_hash_any(hash, password) == hash[2] \in Salts

check_password_hash(hash, password) == hash[3] = Digest(hash[2], password)

create_access_token(identity) == [sub |-> identity]
get_jwt_identity(token) == token.sub

UserView(u) == [id |-> u.id, name |-> u.name, email |-> u.email, type |-> u.type]

\* Mutant: a registration under a stored email replaces that user's row.
register_replace(d, data, salt) ==
    IF ~Has(data, {"name", "email", "password", "type"})
    THEN Result(d, Abort400("Missing data for registration"))
    ELSE LET old == {u \in d.users : u.email = data["email"]}
         IN IF old # {}
            THEN Result([d EXCEPT !.users = {IF u \in old
                                             THEN [u EXCEPT !.name = data["name"],
                                                            !.type = data["type"]]
                                             ELSE u : u \in @}],
                        Message(409, "Email already used"))
            ELSE Result([d EXCEPT !.users = @ \cup
                            {[id |-> NextId(d.users), name |-> data["name"],
                              email |-> data["email"], type |-> data["type"],
                              password_hash |->
                                  generate_password_hash(data["password"], salt)]}],
                        Response(201, [id |-> NextId(d.users), name |-> data["name"],
                                       email |-> data["email"], type |-> data["type"]]))

\* Mutant: the email is looked up before the fields are checked.
register_lookup_first(d, data, salt) ==
    IF "email" \in DOMAIN data /\ First({u \in d.users : u.email = data["email"]}) # None
    THEN Result(d, Message(409, "Email already used"))
    ELSE IF ~Has(data, {"name", "email", "password", "type"})
    THEN Result(d, Abort400("Missing data for registration"))
    ELSE LET user == [id |-> NextId(d.users), name |-> data["name"],
                      email |-> data["email"], type |-> data["type"],
                      password_hash |-> generate_password_hash(data["password"], salt)]
         IN Result([d EXCEPT !.users = @ \cup {user}], Response(201, UserView(user)))

\* 'not data' is true of a missing body (None) and of the empty object alike:
\* both are the body <<>> here.
register(d, data, salt) ==
    IF ~Has(data, {"name", "email", "password", "type"})
    THEN Result(d, Abort400("Missing data for registration"))
    ELSE IF First({u \in d.users : u.email = data["email"]}) # None
    THEN Result(d, Message(409, "Email already used"))
    ELSE LET user == [id |-> NextId(d.users), name |-> data["name"],
                      email |-> data["email"], type |-> data["type"],
                      password_hash |-> generate_password_hash(data["password"], salt)]
         IN Result([d EXCEPT !.users = @ \cup {user}], Response(201, UserView(user)))

login(d, data) ==
    IF "email" \notin DOMAIN data
    THEN Result(d, server_error)
    ELSE LET user == First({u \in d.users : u.email = data["email"]})
         IN IF user = None
            THEN Result(d, Message(401, "Invalid credentials"))
            ELSE IF "password" \notin DOMAIN data
            THEN Result(d, server_error)
            ELSE IF check_password_hash(user[1].password_hash, data["password"])
            THEN Result(d, Response(200, [access_token |-> create_access_token(user[1].id)]))
            ELSE Result(d, Message(401, "Invalid credentials"))

\* register as two steps of a request that runs beside others.  The first step
\* is the test of the body and the lookup by email: the answer it gives, None
\* when the request goes on to build the row.
register_check(d, data) ==
    IF ~Has(data, {"name", "email", "password", "type"})
    THEN Some(Abort400("Missing data for registration"))
    ELSE IF First({u \in d.users : u.email = data["email"]}) # None
    THEN Some(Message(409, "Email already used"))
    ELSE None

\* Mutant: the users table has no unique index on email.
register_commit_unchecked(d, data, salt) ==
    LET user == [id |-> NextId(d.users), name |-> data["name"],
                 email |-> data["email"], type |-> data["type"],
                 password_hash |-> generate_password_hash(data["password"], salt)]
    IN Result([d EXCEPT !.users = @ \cup {user}], Response(201, UserView(user)))

\* The second step is the insert and the commit, on the store as it is by
\* then.  users.email is declared unique: the database rejects the insert of
\* an email that a row holds, commit raises IntegrityError, nothing is stored
\* and the request is answered by the 500 handler.
register_commit(d, data, salt) ==
    IF \E u \in d.users : u.email = data["email"]
    THEN Result(d, server_error)
    ELSE LET user == [id |-> NextId(d.users), name |-> data["name"],
                      email |-> data["email"], type |-> data["type"],
                      password_hash |-> generate_password_hash(data["password"], salt)]
         IN Result([d EXCEPT !.users = @ \cup {user}], Response(201, UserView(user)))

\* The rows of a table in id order (Query.all()).
RECURSIVE All(_)
All(rows) ==
    IF rows = {} THEN <<>>
    ELSE LET r == CHOOSE x \in rows : x.id = Min(Ids(rows))
         IN <<r>> \o All(rows \ {r})

get_users(d) ==
    LET us == All(d.users)
    IN Result(d, Response(200, [list |-> [i \in 1..Len(us) |-> UserView(us[i])]]))

\* @jwt_required(): a request without a verifiable token is answered 401 before
\* the handler runs.  A presented token is Some(token), a missing one None.
jwt_required(token) == token # None
unauthorized == Response(401, [msg |-> "Missing Authorization Header"])
identity(token) == get_jwt_identity(token[1])

\* ------------------------------------------------------------------ courses
CourseView(c) == [id |-> c.id, title |-> c.title, description |-> c.description]
course_not_found == Message(404, "Course not found or unauthorized access")

\* Mutant: the course is looked up by its id alone.
owned_course_any(d, course_id, token) ==
    First({c \in d.courses : c.id = course_id})

\* Course.query.filter_by(id=course_id, teacher_id=get_jwt_identity()).first()
owned_course(d, course_id, token) ==
    First({c \in d.courses : c.id = course_id /\ c.teacher_id = identity(token)})

\* Mutant: only a user of type 'teacher' creates a course.
create_course_teacher_only(d, token, data) ==
    IF ~jwt_required(token) THEN Result(d, unauthorized)
    ELSE IF \E u \in d.users : u.id = identity(token) /\ u.type # "teacher"
    THEN Result(d, Message(403, "Teachers only"))
    ELSE IF "title" \notin DOMAIN data THEN Result(d, server_error)
    ELSE Result([d EXCEPT !.courses = @ \cup
                    {[id |-> NextId(d.courses), title |-> data["title"],
                      description |-> Get(data, "description"),
                      teacher_id |-> identity(token)]}],
                Response(201, [id |-> NextId(d.courses), title |-> data["title"]]))

create_course(d, token, data) ==
    IF ~jwt_required(token) THEN Result(d, unauthorized)
    ELSE IF "title" \notin DOMAIN data THEN Result(d, server_error)
    ELSE LET course == [id |-> NextId(d.courses), title |-> data["title"],
                        description |-> Get(data, "description"),
                        teacher_id |-> identity(token)]
         IN Result([d EXCEPT !.courses = @ \cup {course}],
                   Response(201, [id |-> course.id, title |-> course.title]))

get_course(d, course_id) ==
    LET course == First({c \in d.courses : c.id = course_id})
    IN IF course = None THEN Result(d, not_found)
       ELSE Result(d, Response(200, CourseView(course[1])))

list_courses(d, token) ==
    IF ~jwt_required(token) THEN Result(d, unauthorized)
    ELSE LET cs == All({c \in d.courses : c.teacher_id = identity(token)})
         IN Result(d, Response(200, [list |-> [i \in 1..Len(cs) |-> CourseView(cs[i])]]))

\* Mutant: a description absent from the request is stored as null.
update_course_replace(d, token, course_id, data) ==
    IF ~jwt_required(token) THEN Result(d, unauthorized)
    ELSE LET course == owned_course(d, course_id, token)
         IN IF course = None THEN Result(d, course_not_found)
            ELSE LET new == [course[1] EXCEPT
                               !.title = IF "title" \in DOMAIN data
                                         THEN data["title"] ELSE @,
                               !.description = Get(data, "description")]
                 IN Result([d EXCEPT !.courses = (@ \ {course[1]}) \cup {new}],
                           Response(200, CourseView(new)))

update_course(d, token, course_id, data) ==
    IF ~jwt_required(token) THEN Result(d, unauthorized)
    ELSE LET course == owned_course(d, course_id, token)
         IN IF course = None THEN Result(d, course_not_found)
            ELSE LET new == [course[1] EXCEPT
                               !.title = IF "title" \in DOMAIN data
                                         THEN data["title"] ELSE @,
                               !.description = IF "description" \in DOMAIN data
                                               THEN data["description"] ELSE @]
                 IN Result([d EXCEPT !.courses = (@ \ {course[1]}) \cup {new}],
                           Response(200, CourseView(new)))

\* Mutant: the enrollments of the course are deleted with it.
delete_course_cascade(d, token, course_id) ==
    IF ~jwt_required(token) THEN Result(d, unauthorized)
    ELSE LET course == owned_course(d, course_id, token)
         IN IF course = None THEN Result(d, course_not_found)
            ELSE Result([d EXCEPT
                           !.courses = @ \ {course[1]},
                           !.enrollments = {e \in @ : e.course_id # course_id},
                           !.assignments =
                               {IF a.course_id = Some(course_id)
                                THEN [a EXCEPT !.course_id = None] ELSE a : a \in @}],
                        Message(200, "Course deleted successfully"))

\* session.delete(course): Course.assignments has no delete cascade, so the
\* unit of work first sets course_id of the course's assignments to NULL.
delete_course(d, token, course_id) ==
    IF ~jwt_required(token) THEN Result(d, unauthorized)
    ELSE LET course == owned_course(d, course_id, token)
         IN IF course = None THEN Result(d, course_not_found)
            ELSE Result([d EXCEPT
                           !.courses = @ \ {course[1]},
                           !.assignments =
                               {IF a.course_id = Some(course_id)
                                THEN [a EXCEPT !.course_id = None] ELSE a : a \in @}],
                        Message(200, "Course deleted successfully"))

\* ---------------------------------------------------------------- materials
\* A file name is a sequence of characters.
\* secure_filename: path separators become spaces, runs of whitespace are
\* joined by "_", characters outside [A-Za-z0-9_.-] are dropped, and leading
\* and trailing "." and "_" are stripped.
SafeChars == {"a", "b", "t", ".", "_", "-"}

ReplaceSep(s) == [i \in 1..Len(s) |-> IF s[i] = "/" THEN " " ELSE s[i]]

\* "_".join(s.split()): gap is TRUE when whitespace was skipped since the last
\* character that was kept.
RECURSIVE SplitJoin(_, _, _)
SplitJoin(s, out, gap) ==
    IF s = <<>> THEN out
    ELSE IF Head(s) = " " THEN SplitJoin(Tail(s), out, TRUE)
    ELSE SplitJoin(Tail(s),
                   IF gap /\ out # <<>> THEN out \o <<"_", Head(s)>>
                   ELSE out \o <<Head(s)>>,
                   FALSE)

AsciiStrip(s) == SelectSeq(s, LAMBDA ch : ch \in SafeChars)

RECURSIVE LStrip(_)
LStrip(s) == IF s # <<>> /\ Head(s) \in {".", "_"} THEN LStrip(Tail(s)) ELSE s

RECURSIVE RStrip(_)
RStrip(s) == IF s # <<>> /\ s[Len(s)] \in {".", "_"}
             THEN RStrip(SubSeq(s, 1, Len(s) - 1)) ELSE s

secure_filename(filename) ==
    RStrip(LStrip(AsciiStrip(SplitJoin(ReplaceSep(filename), <<>>, FALSE))))

\* file.save(path): the directory maps a file name to the content last saved
\* under it.
Save(dir, filename, content) ==
    [n \in DOMAIN dir \cup {filename} |-> IF n = filename THEN content ELSE dir[n]]

\* Mutant: the file is saved in a directory of its course.
upload_material_per_course(d, token, course_id, form) ==
    IF ~jwt_required(token) THEN Result(d, unauthorized)
    ELSE IF owned_course(d, course_id, token) = None THEN Result(d, course_not_found)
    ELSE IF "file" \notin DOMAIN form
    THEN Result(d, Message(400, "No file part found in the request"))
    ELSE IF form["file"].filename = <<>>
    THEN Result(d, Message(400, "No file selected"))
    ELSE LET filename == secure_filename(form["file"].filename)
         IN IF filename = <<>> THEN Result(d, server_error)
            ELSE Result([d EXCEPT !.files = Save(@, <<ToString(course_id), "/">> \o filename,
                                                 form["file"].content)],
                        Message(201, "File uploaded successfully"))

\* form is request.files: a function that holds the key "file" or not; a file
\* part is [filename |-> ..., content |-> ...].  An empty sanitized name makes
\* the path the upload directory itself, and file.save raises.
upload_material(d, token, course_id, form) ==
    IF ~jwt_required(token) THEN Result(d, unauthorized)
    ELSE IF owned_course(d, course_id, token) = None THEN Result(d, course_not_found)
    ELSE IF "file" \notin DOMAIN form
    THEN Result(d, Message(400, "No file part found in the request"))
    ELSE IF form["file"].filename = <<>>
    THEN Result(d, Message(400, "No file selected"))
    ELSE LET filename == secure_filename(form["file"].filename)
         IN IF filename = <<>> THEN Result(d, server_error)
            ELSE Result([d EXCEPT !.files = Save(@, filename, form["file"].content)],
                        Message(201, "File uploaded successfully"))

\* ----------------------------------------------------------------- students
list_course_students(d, token, course_id) ==
    IF ~jwt_required(token) THEN Result(d, unauthorized)
    ELSE IF owned_course(d, course_id, token) = None THEN Result(d, course_not_found)
    ELSE LET es == All({e \in d.enrollments : e.course_id = course_id})
         IN Result(d, Response(200,
                [list |-> [i \in 1..Len(es) |-> [student_id |-> es[i].student_id]]]))

remove_student_from_course(d, token, course_id, student_id) ==
    IF ~jwt_required(token) THEN Result(d, unauthorized)
    ELSE IF owned_course(d, course_id, token) = None THEN Result(d, course_not_found)
    ELSE LET enrollment == First({e \in d.enrollments :
                                    e.course_id = course_id /\ e.student_id = student_id})
         IN IF enrollment = None
            THEN Result(d, Message(404, "Student not enrolled in the course"))
            ELSE Result([d EXCEPT !.enrollments = @ \ {enrollment[1]}],
                        Message(200, "Student removed successfully"))

\* Mutant: a student who is enrolled in the course is not enrolled again.
enroll_student_once(d, token, course_id) ==
    IF ~jwt_required(token) THEN Result(d, unauthorized)
    ELSE IF \E e \in d.enrollments :
               e.course_id = course_id /\ e.student_id = identity(token)
    THEN Result(d, Message(200, "Student enrolled successfully"))
    ELSE Result([d EXCEPT !.enrollments = @ \cup
                    {[id |-> NextId(d.enrollments), course_id |-> course_id,
                      student_id |-> identity(token)]}],
                Message(200, "Student enrolled successfully"))

enroll_student(d, token, course_id) ==
    IF ~jwt_required(token) THEN Result(d, unauthorized)
    ELSE LET enrollment == [id |-> NextId(d.enrollments), course_id |-> course_id,
                            student_id |-> identity(token)]
         IN Result([d EXCEPT !.enrollments = @ \cup {enrollment}],
                   Message(200, "Student enrolled successfully"))

\* -------------------------------------------------------------- submissions
\* AssignmentSubmission.query.filter_by(assignment_id=..., student_id=...).first()
find_submission(d, assignment_id, student_id) ==
    First({s \in d.submissions :
             s.assignment_id = assignment_id /\ s.student_id = student_id})

\* Mutant: a key absent from the request keeps the stored value.
mark_submission_keep(d, token, course_id, assignment_id, student_id, data) ==
    IF ~jwt_required(token) THEN Result(d, unauthorized)
    ELSE IF owned_course(d, course_id, token) = None THEN Result(d, course_not_found)
    ELSE LET submission == find_submission(d, assignment_id, student_id)
         IN IF submission = None THEN Result(d, Message(404, "Submission not found"))
            ELSE LET new == [submission[1] EXCEPT
                               !.marks = IF "marks" \in DOMAIN data
                                         THEN data["marks"] ELSE @,
                               !.feedback = IF "feedback" \in DOMAIN data
                                            THEN data["feedback"] ELSE @]
                 IN Result([d EXCEPT !.submissions = (@ \ {submission[1]}) \cup {new}],
                           Message(200, "Marks and feedback updated successfully"))

\* Mutant: the assignment of the submission must be one of the course.
mark_submission_of_course(d, token, course_id, assignment_id, student_id, data) ==
    IF ~jwt_required(token) THEN Result(d, unauthorized)
    ELSE IF owned_course(d, course_id, token) = None THEN Result(d, course_not_found)
    ELSE LET submission == find_submission(d, assignment_id, student_id)
         IN IF \/ submission = None
               \/ ~\E a \in d.assignments :
                      a.id = assignment_id /\ a.course_id = Some(course_id)
            THEN Result(d, Message(404, "Submission not found"))
            ELSE LET new == [submission[1] EXCEPT !.marks = Get(data, "marks"),
                                                  !.feedback = Get(data, "feedback")]
                 IN Result([d EXCEPT !.submissions = (@ \ {submission[1]}) \cup {new}],
                           Message(200, "Marks and feedback updated successfully"))

mark_submission(d, token, course_id, assignment_id, student_id, data) ==
    IF ~jwt_required(token) THEN Result(d, unauthorized)
    ELSE IF owned_course(d, course_id, token) = None THEN Result(d, course_not_found)
    ELSE LET submission == find_submission(d, assignment_id, student_id)
         IN IF submission = None THEN Result(d, Message(404, "Submission not found"))
            ELSE LET new == [submission[1] EXCEPT !.marks = Get(data, "marks"),
                                                  !.feedback = Get(data, "feedback")]
                 IN Result([d EXCEPT !.submissions = (@ \ {submission[1]}) \cup {new}],
                           Message(200, "Marks and feedback updated successfully"))

\* No route creates a submission: the rows are inserted into the table
\* directly, with marks and feedback NULL.
insert_submission(d, student_id, assignment_id) ==
    [d EXCEPT !.submissions = @ \cup {[id |-> NextId(d.submissions),
                                       student_id |-> student_id,
                                       assignment_id |-> assignment_id,
                                       marks |-> None, feedback |-> None]}]

\* -------------------------------------------------------------- assignments
\* datetime.strptime(text, '%Y-%m-%dT%H:%M:%SZ'): the date and time as numbers,
\* None for a text of another format (ValueError).
strptime(text) ==
    CASE text = "2024-05-31T23:59:59Z" -> Some(<<2024, 5, 31, 23, 59, 59>>)
      [] text = "2024-06-01T00:00:00Z" -> Some(<<2024, 6, 1, 0, 0, 0>>)
      [] OTHER -> None

\* datetime.isoformat(): no trailing Z.
isoformat(t) ==
    CASE t = <<2024, 5, 31, 23, 59, 59>> -> "2024-05-31T23:59:59"
      [] t = <<2024, 6, 1, 0, 0, 0>> -> "2024-06-01T00:00:00"

\* Mutant: the course must be the requester's.
add_assignment_to_own_course(d, token, course_id, data) ==
    IF ~jwt_required(token) THEN Result(d, unauthorized)
    ELSE IF owned_course(d, course_id, token) = None THEN Result(d, course_not_found)
    ELSE IF "due_date" \notin DOMAIN data THEN Result(d, server_error)
    ELSE IF strptime(data["due_date"]) = None THEN Result(d, server_error)
    ELSE IF "name" \notin DOMAIN data THEN Result(d, server_error)
    ELSE Result([d EXCEPT !.assignments = @ \cup
                    {[id |-> NextId(d.assignments), name |-> data["name"],
                      due_date |-> strptime(data["due_date"])[1],
                      course_id |-> Some(course_id),
                      description |-> Get(data, "description")]}],
                Response(201, [id |-> NextId(d.assignments), name |-> data["name"]]))

add_assignment_to_course(d, token, course_id, data) ==
    IF ~jwt_required(token) THEN Result(d, unauthorized)
    ELSE IF "due_date" \notin DOMAIN data THEN Result(d, server_error)
    ELSE IF strptime(data["due_date"]) = None THEN Result(d, server_error)
    ELSE IF "name" \notin DOMAIN data THEN Result(d, server_error)
    ELSE LET assignment == [id |-> NextId(d.assignments), name |-> data["name"],
                            due_date |-> strptime(data["due_date"])[1],
                            course_id |-> Some(course_id),
                            description |-> Get(data, "description")]
         IN Result([d EXCEPT !.assignments = @ \cup {assignment}],
                   Response(201, [id |-> assignment.id, name |-> assignment.name]))

get_assignment(d, token, course_id, assignment_id) ==
    IF ~jwt_required(token) THEN Result(d, unauthorized)
    ELSE LET assignment == First({a \in d.assignments :
                                    a.id = assignment_id /\ a.course_id = Some(course_id)})
         IN IF assignment = None THEN Result(d, Message(404, "Assignment not found"))
            ELSE Result(d, Response(200,
                   [id |-> assignment[1].id, name |-> assignment[1].name,
                    due_date |-> isoformat(assignment[1].due_date),
                    description |-> assignment[1].description]))

\* ------------------------------------------------------------------ inputs
\* The requests the clients send.  Alice and Bob register under their own
\* emails; Mallory registers under Alice's email with other data.
Alice == [name |-> "Alice", email |-> "a@test.com",
          password |-> "securepassword", type |-> "teacher"]
Bob == [name |-> "Bob", email |-> "b@test.com",
        password |-> "password2", type |-> "student"]
Mallory == [name |-> "Mallory", email |-> "a@test.com",
            password |-> "wrongpassword", type |-> "student"]

\* data without the key k
Without(data, k) == [x \in DOMAIN data \ {k} |-> data[x]]

FullRegisterBodies == {Alice, Bob, Mallory}
RegisterBodies ==
    FullRegisterBodies \cup {Without(Alice, k) : k \in DOMAIN Alice} \cup {<<>>}

Emails == {b.email : b \in FullRegisterBodies}
Passwords == {b.password : b \in FullRegisterBodies}
FullLoginBodies == [email : Emails, password : Passwords]
LoginBodies ==
    FullLoginBodies \cup {[email |-> e] : e \in Emails}
                    \cup {[password |-> "securepassword"]}

\* The tokens a client can present: one that login issues (the token of a
\* stored user) or, when anonymous requests are sent too, none.
Tokens(anonymous) ==
    (IF anonymous THEN {None} ELSE {})
    \cup {Some(create_access_token(u.id)) : u \in users}

CourseIds == 1..MaxCourses
AssignmentIds == 1..MaxAssignments
\* the ids users get: the email is unique, so there is a user per email at most
UserIds == 1..Cardinality(Emails)

FullCourseBodies == {[title |-> "Math 101", description |-> Some("Basic Math")],
                     [title |-> "Math 101"]}
CourseBodies == FullCourseBodies \cup {[description |-> Some("Basic Math")]}
UpdateBodies == {[title |-> "Advanced Math"],
                 [description |-> Some("Basic Math")],
                 <<>>}

FullAssignmentBodies ==
    {[name |-> "Assignment 1", due_date |-> "2024-05-31T23:59:59Z",
      description |-> Some("Solve these problems")]}
AssignmentBodies ==
    FullAssignmentBodies
    \cup {[name |-> "Assignment 1", due_date |-> "tomorrow"],
          [name |-> "Assignment 1"],
          [due_date |-> "2024-05-31T23:59:59Z"]}

MarkBodies == {[marks |-> Some(90), feedback |-> Some("Great job!")],
               [marks |-> Some(-5)],
               <<>>}

FileNames == {<<"a", ".", "t">>, <<".", ".", "/", "a", ".", "t">>,
              <<".", ".">>, <<>>}
Contents == {"c1", "c2"}
FullForms == {[file |-> [filename |-> <<"a", ".", "t">>, content |-> "c1"]]}
Forms == {[file |-> [filename |-> n, content |-> c]] : n \in FileNames, c \in Contents}
         \cup {<<>>}

\* What the clients send in a specification: every request body, the malformed
\* ones included, with a token (AllInputs) or also without one (OpenInputs), or
\* the well-formed requests of Alice and Bob (PlainInputs).
AllInputs ==
    [register |-> RegisterBodies, login |-> LoginBodies, anonymous |-> FALSE,
     course |-> CourseBodies, update |-> UpdateBodies,
     assignment |-> AssignmentBodies, mark |-> MarkBodies, form |-> Forms]
OpenInputs == [AllInputs EXCEPT !.anonymous = TRUE]
PlainInputs ==
    [register |-> {Alice, Bob}, login |-> {[email |-> Alice.email,
                                            password |-> Alice.password]},
     anonymous |-> FALSE,
     course |-> {[title |-> "Math 101", description |-> Some("Basic Math")]},
     update |-> {[title |-> "Advanced Math"]},
     assignment |-> FullAssignmentBodies,
     mark |-> {[marks |-> Some(90), feedback |-> Some("Great job!")]},
     form |-> FullForms]

\* ------------------------------------------------------------ state machine
NoRequest == [op |-> "none"]
NoResponse == Response(0, [message |-> "none"])

EmptyStore == [users |-> {}, courses |-> {}, assignments |-> {},
               enrollments |-> {}, submissions |-> {}, files |-> <<>>]

Init ==
    /\ users = {} /\ courses = {} /\ assignments = {}
    /\ enrollments = {} /\ submissions = {}
    /\ files = <<>>
    /\ req = NoRequest
    /\ resp = NoResponse
    /\ credentials = <<>>
    /\ uploaders = <<>>
    /\ inflight = <<>>
    /\ created = <<>>
    /\ twin = [db |-> EmptyStore, resp |-> NoResponse]

\* The tables stay within the bounds of the model.
Within(d, rows) ==
    /\ Ids(d.courses) \subseteq 1..MaxCourses
    /\ Ids(d.assignments) \subseteq 1..MaxAssignments
    /\ Ids(d.enrollments) \subseteq 1..MaxEnrollments
    /\ Ids(d.submissions) \subseteq 1..MaxSubmissions
    /\ Cardinality(d.courses) + Cardinality(d.assignments)
         + Cardinality(d.enrollments) + Cardinality(d.submissions)
         + Cardinality(DOMAIN d.files) <= rows

InBounds(d) == Within(d, MaxRows)

\* The history of a registration: the password and the 201 answer are noted.
Credentials(q, r) ==
    IF q.op = "register" /\ r.resp.status = 201
    THEN [i \in DOMAIN credentials \cup {r.resp.body.id} |->
            IF i = r.resp.body.id THEN q.data["password"] ELSE credentials[i]]
    ELSE credentials

Created(q, r) ==
    IF q.op = "register" /\ r.resp.status = 201
    THEN LET e == q.data["email"]
         IN [x \in DOMAIN created \cup {e} |->
               IF x = e THEN (IF e \in DOMAIN created THEN created[e] ELSE 0) + 1
               ELSE created[x]]
    ELSE created

\* The handler's result r of the request q is committed and answered.
Commit(q, r) ==
    /\ users' = r.db.users
    /\ courses' = r.db.courses
    /\ assignments' = r.db.assignments
    /\ enrollments' = r.db.enrollments
    /\ submissions' = r.db.submissions
    /\ files' = r.db.files
    /\ req' = q
    /\ resp' = r.resp
    /\ credentials' = Credentials(q, r)
    /\ created' = Created(q, r)
    /\ UNCHANGED inflight
    /\ uploaders' =
          IF q.op = "upload_material" /\ r.resp.status = 201
          THEN LET n == secure_filename(q.form["file"].filename)
               IN [m \in DOMAIN uploaders \cup {n} |->
                     IF m = n
                     THEN (IF n \in DOMAIN uploaders THEN uploaders[n] ELSE {})
                          \cup {q.course_id}
                     ELSE uploaders[m]]
          ELSE uploaders

\* One request q, within the bounds.
Record(q, r) == InBounds(r.db) /\ Commit(q, r)

Do(q, r) == Record(q, r) /\ UNCHANGED twin

Register(I) ==
    \E data \in I.register, salt \in Salts :
        Do([op |-> "register", data |-> data], register(Store, data, salt))

Login(I) ==
    \E data \in I.login :
        Do([op |-> "login", data |-> data], login(Store, data))

GetUsers == Do([op |-> "get_users"], get_users(Store))

CreateCourse(I) ==
    \E token \in Tokens(I.anonymous), data \in I.course :
        Do([op |-> "create_course", token |-> token, data |-> data],
           create_course(Store, token, data))

GetCourse ==
    \E course_id \in CourseIds :
        Do([op |-> "get_course", course_id |-> course_id],
           get_course(Store, course_id))

ListCourses(I) ==
    \E token \in Tokens(I.anonymous) :
        Do([op |-> "list_courses", token |-> token], list_courses(Store, token))

UpdateCourse(I) ==
    \E token \in Tokens(I.anonymous), course_id \in CourseIds, data \in I.update :
        Do([op |-> "update_course", token |-> token, course_id |-> course_id,
            data |-> data],
           update_course(Store, token, course_id, data))

DeleteCourse(I) ==
    \E token \in Tokens(I.anonymous), course_id \in CourseIds :
        Do([op |-> "delete_course", token |-> token, course_id |-> course_id],
           delete_course(Store, token, course_id))

UploadMaterial(I) ==
    \E token \in Tokens(I.anonymous), course_id \in CourseIds, form \in I.form :
        Do([op |-> "upload_material", token |-> token, course_id |-> course_id,
            form |-> form],
           upload_material(Store, token, course_id, form))

ListCourseStudents(I) ==
    \E token \in Tokens(I.anonymous), course_id \in CourseIds :
        Do([op |-> "list_course_students", token |-> token, course_id |-> course_id],
           list_course_students(Store, token, course_id))

RemoveStudentFromCourse(I) ==
    \E token \in Tokens(I.anonymous), course_id \in CourseIds, student_id \in UserIds :
        Do([op |-> "remove_student_from_course", token |-> token,
            course_id |-> course_id, student_id |-> student_id],
           remove_student_from_course(Store, token, course_id, student_id))

MarkSubmission(I) ==
    \E token \in Tokens(I.anonymous), course_id \in CourseIds,
       assignment_id \in AssignmentIds, student_id \in UserIds, data \in I.mark :
        Do([op |-> "mark_submission", token |-> token, course_id |-> course_id,
            assignment_id |-> assignment_id, student_id |-> student_id,
            data |-> data],
           mark_submission(Store, token, course_id, assignment_id, student_id, data))

\* A submission arrives in the table without a request (no route creates one).
InsertSubmission ==
    \E student_id \in Ids(users), assignment_id \in Ids(assignments) :
        Do([op |-> "insert_submission", student_id |-> student_id,
            assignment_id |-> assignment_id],
           Result(insert_submission(Store, student_id, assignment_id), NoResponse))

AddAssignmentToCourse(I) ==
    \E token \in Tokens(I.anonymous), course_id \in CourseIds, data \in I.assignment :
        Do([op |-> "add_assignment_to_course", token |-> token,
            course_id |-> course_id, data |-> data],
           add_assignment_to_course(Store, token, course_id, data))

GetAssignment(I) ==
    \E token \in Tokens(I.anonymous), course_id \in CourseIds,
       assignment_id \in AssignmentIds :
        Do([op |-> "get_assignment", token |-> token, course_id |-> course_id,
            assignment_id |-> assignment_id],
           get_assignment(Store, token, course_id, assignment_id))

EnrollStudent(I) ==
    \E token \in Tokens(I.anonymous), course_id \in CourseIds :
        Do([op |-> "enroll_student", token |-> token, course_id |-> course_id],
           enroll_student(Store, token, course_id))

\* Every request of the application, sent by Alice and Bob.
Next ==
    \/ Register(PlainInputs) \/ Login(PlainInputs) \/ GetUsers
    \/ CreateCourse(PlainInputs) \/ GetCourse \/ ListCourses(PlainInputs)
    \/ UpdateCourse(PlainInputs) \/ DeleteCourse(PlainInputs)
    \/ UploadMaterial(PlainInputs)
    \/ ListCourseStudents(PlainInputs) \/ RemoveStudentFromCourse(PlainInputs)
    \/ EnrollStudent(PlainInputs)
    \/ AddAssignmentToCourse(PlainInputs) \/ GetAssignment(PlainInputs)
    \/ InsertSubmission \/ MarkSubmission(PlainInputs)

Spec == Init /\ [][Next]_vars

\* Registration and login, with every request body.
NextAuth == Register(AllInputs) \/ Login(AllInputs) \/ GetUsers
SpecAuth == Init /\ [][NextAuth]_vars

\* The course routes, with every request body, with and without a token.
NextCourses ==
    \/ Register(PlainInputs) \/ CreateCourse(OpenInputs) \/ GetCourse
    \/ ListCourses(OpenInputs) \/ UpdateCourse(OpenInputs) \/ DeleteCourse(OpenInputs)
SpecCourses == Init /\ [][NextCourses]_vars

\* The six routes behind the ownership check and the requests that fill the
\* tables they read and write.
NextOwner ==
    \/ Register(PlainInputs) \/ CreateCourse(PlainInputs)
    \/ EnrollStudent(PlainInputs) \/ AddAssignmentToCourse(PlainInputs)
    \/ InsertSubmission
    \/ UpdateCourse(PlainInputs) \/ DeleteCourse(PlainInputs)
    \/ UploadMaterial(PlainInputs) \/ ListCourseStudents(PlainInputs)
    \/ RemoveStudentFromCourse(PlainInputs) \/ MarkSubmission(PlainInputs)
SpecOwner == Init /\ [][NextOwner]_vars

\* Enrollment: enrolling, listing and removing students of courses that are
\* created and deleted.
NextClass ==
    \/ Register(PlainInputs) \/ CreateCourse(PlainInputs) \/ DeleteCourse(PlainInputs)
    \/ EnrollStudent(AllInputs) \/ ListCourseStudents(AllInputs)
    \/ RemoveStudentFromCourse(AllInputs)
SpecClass == Init /\ [][NextClass]_vars

\* Assignments.
NextAssign ==
    \/ Register(PlainInputs) \/ CreateCourse(PlainInputs) \/ DeleteCourse(PlainInputs)
    \/ AddAssignmentToCourse(AllInputs) \/ GetAssignment(AllInputs)
SpecAssign == Init /\ [][NextAssign]_vars

\* The marking of submissions.
NextMarks ==
    \/ Register(PlainInputs) \/ CreateCourse(PlainInputs)
    \/ AddAssignmentToCourse(PlainInputs) \/ InsertSubmission
    \/ MarkSubmission(AllInputs)
SpecMarks == Init /\ [][NextMarks]_vars

\* Deleting courses that have assignments, enrollments and submissions.
NextDelete ==
    \/ Register(PlainInputs) \/ CreateCourse(PlainInputs)
    \/ EnrollStudent(PlainInputs) \/ AddAssignmentToCourse(PlainInputs)
    \/ InsertSubmission
    \/ DeleteCourse(AllInputs) \/ GetCourse
SpecDelete == Init /\ [][NextDelete]_vars

\* Uploads of materials.
NextUpload ==
    \/ Register(PlainInputs) \/ CreateCourse(PlainInputs) \/ DeleteCourse(PlainInputs)
    \/ UploadMaterial(AllInputs)
SpecUpload == Init /\ [][NextUpload]_vars

\* Register requests served side by side: each worker runs the two steps of
\* register one after the other, and the steps of the workers interleave.
Workers == {"w1", "w2"}

RegisterCheck(I) ==
    \E w \in Workers \ DOMAIN inflight, data \in I.register, salt \in Salts :
        LET answer == register_check(Store, data)
        IN IF answer = None
           THEN /\ inflight' = [x \in DOMAIN inflight \cup {w} |->
                                 IF x = w THEN [data |-> data, salt |-> salt]
                                 ELSE inflight[x]]
                /\ UNCHANGED <<users, courses, assignments, enrollments, submissions,
                               files, req, resp, credentials, uploaders,
                               created, twin>>
           ELSE /\ req' = [op |-> "register", data |-> data]
                /\ resp' = answer[1]
                /\ UNCHANGED <<users, courses, assignments, enrollments, submissions,
                               files, credentials, uploaders, inflight,
                               created, twin>>

RegisterCommit ==
    \E w \in DOMAIN inflight :
        LET q == [op |-> "register", data |-> inflight[w].data]
            r == register_commit(Store, inflight[w].data, inflight[w].salt)
        IN /\ users' = r.db.users
           /\ req' = q
           /\ resp' = r.resp
           /\ credentials' = Credentials(q, r)
           /\ created' = Created(q, r)
           /\ inflight' = [x \in DOMAIN inflight \ {w} |-> inflight[x]]
           /\ UNCHANGED <<courses, assignments, enrollments, submissions, files,
                          uploaders, twin>>

NextRace == RegisterCheck(AllInputs) \/ RegisterCommit
SpecRace == Init /\ [][NextRace]_vars

\* The routes behind @jwt_required(), as the router dispatches them.
TokenProtected == {"create_course", "list_courses", "update_course",
                   "delete_course", "upload_material", "list_course_students",
                   "remove_student_from_course", "mark_submission",
                   "add_assignment_to_course", "get_assignment", "enroll_student"}

Dispatch(d, q) ==
    CASE q.op = "create_course" -> create_course(d, q.token, q.data)
      [] q.op = "list_courses" -> list_courses(d, q.token)
      [] q.op = "update_course" -> update_course(d, q.token, q.course_id, q.data)
      [] q.op = "delete_course" -> delete_course(d, q.token, q.course_id)
      [] q.op = "upload_material" -> upload_material(d, q.token, q.course_id, q.form)
      [] q.op = "list_course_students" ->
            list_course_students(d, q.token, q.course_id)
      [] q.op = "remove_student_from_course" ->
            remove_student_from_course(d, q.token, q.course_id, q.student_id)
      [] q.op = "mark_submission" ->
            mark_submission(d, q.token, q.course_id, q.assignment_id,
                            q.student_id, q.data)
      [] q.op = "add_assignment_to_course" ->
            add_assignment_to_course(d, q.token, q.course_id, q.data)
      [] q.op = "get_assignment" ->
            get_assignment(d, q.token, q.course_id, q.assignment_id)
      [] q.op = "enroll_student" -> enroll_student(d, q.token, q.course_id)

\* The requests to the token-protected routes.
TokenRequests(I) ==
    LET T == Tokens(I.anonymous) IN
    {[op |-> "create_course", token |-> t, data |-> b] : t \in T, b \in I.course}
    \cup {[op |-> "list_courses", token |-> t] : t \in T}
    \cup {[op |-> "update_course", token |-> t, course_id |-> c, data |-> b] :
            t \in T, c \in CourseIds, b \in I.update}
    \cup {[op |-> o, token |-> t, course_id |-> c] :
            o \in {"delete_course", "list_course_students", "enroll_student"},
            t \in T, c \in CourseIds}
    \cup {[op |-> "upload_material", token |-> t, course_id |-> c, form |-> f] :
            t \in T, c \in CourseIds, f \in I.form}
    \cup {[op |-> "remove_student_from_course", token |-> t, course_id |-> c,
           student_id |-> u] : t \in T, c \in CourseIds, u \in UserIds}
    \cup {[op |-> "mark_submission", token |-> t, course_id |-> c,
           assignment_id |-> a, student_id |-> u, data |-> b] :
            t \in T, c \in CourseIds, a \in AssignmentIds, u \in UserIds,
            b \in I.mark}
    \cup {[op |-> "add_assignment_to_course", token |-> t, course_id |-> c,
           data |-> b] : t \in T, c \in CourseIds, b \in I.assignment}
    \cup {[op |-> "get_assignment", token |-> t, course_id |-> c,
           assignment_id |-> a] : t \in T, c \in CourseIds, a \in AssignmentIds}

\* Marking through the courses of two teachers: the two courses, an assignment
\* of one of them and a submission to it are one row more than MaxRows.
CrossRows == MaxRows + 1
CrossOps == {"create_course", "add_assignment_to_course", "mark_submission"}

CrossStep(q, r) == Within(r.db, CrossRows) /\ Commit(q, r) /\ UNCHANGED twin

CrossRegister ==
    \E data \in PlainInputs.register, salt \in Salts :
        CrossStep([op |-> "register", data |-> data], register(Store, data, salt))

CrossRequest ==
    \E q \in {x \in TokenRequests(PlainInputs) : x.op \in CrossOps} :
        CrossStep(q, Dispatch(Store, q))

CrossInsertSubmission ==
    \E student_id \in Ids(users), assignment_id \in Ids(assignments) :
        CrossStep([op |-> "insert_submission", student_id |-> student_id,
                   assignment_id |-> assignment_id],
                  Result(insert_submission(Store, student_id, assignment_id),
                         NoResponse))

NextCross == CrossRegister \/ CrossRequest \/ CrossInsertSubmission
SpecCross == Init /\ [][NextCross]_vars

\* Two runs of one request sequence that differ only in the types the users
\* register with: the store and the response of the second run are in twin.
Types == {"teacher", "student"}

PairRegister(I) ==
    \E data \in I.register, type \in Types, salt \in Salts :
        /\ Record([op |-> "register", data |-> data], register(Store, data, salt))
        /\ LET r == register(twin.db, [data EXCEPT !["type"] = type], salt)
           IN twin' = [db |-> r.db, resp |-> r.resp]

PairRequest(I) ==
    \E q \in TokenRequests(I) :
        /\ Record(q, Dispatch(Store, q))
        /\ LET r == Dispatch(twin.db, q)
           IN twin' = [db |-> r.db, resp |-> r.resp]

PairInsertSubmission ==
    \E student_id \in Ids(users), assignment_id \in Ids(assignments) :
        /\ Record([op |-> "insert_submission", student_id |-> student_id,
                   assignment_id |-> assignment_id],
                  Result(insert_submission(Store, student_id, assignment_id),
                         NoResponse))
        /\ twin' = [db |-> insert_submission(twin.db, student_id, assignment_id),
                    resp |-> NoResponse]

\* One user, Alice, registers as a teacher in the first run and as a teacher or
\* a student in the second.
PairInputs == [PlainInputs EXCEPT !.register = {Alice}]

NextPair ==
    PairRegister(PairInputs) \/ PairRequest(PairInputs) \/ PairInsertSubmission
SpecPair == Init /\ [][NextPair]_vars

\* ------------------------------------------------------------------ claims
Tables == <<users, courses, assignments, enrollments, submissions>>

\* C1: a register request (name, email, password, type) whose email is the
\* email of a stored user is answered 409 'Email already used', adds no User
\* row and leaves every User row as it was.
C1_DuplicateEmailRejected ==
    [][(/\ req'.op = "register"
        /\ Has(req'.data, {"name", "email", "password", "type"})
        /\ \E u \in users : u.email = req'.data["email"])
       => (resp' = Message(409, "Email already used") /\ users' = users)]_vars

\* Mallory's registration under Alice's stored email has been refused.
C1_Witness ==
    /\ req.op = "register" /\ req.data = Mallory
    /\ resp.status = 409
    /\ \E u \in users : u.email = Mallory.email /\ u.name = Alice.name

\* C2: login answers 200 with a token only when a user with the given email is
\* stored and the given password is the one that user registered with, and the
\* token is that user's; a login with an email and a password that are not such
\* a pair is answered 401 'Invalid credentials', whether the email is unknown
\* or the password wrong; no login changes the store.
ValidLogin(data, u) ==
    /\ Has(data, {"email", "password"})
    /\ u.email = data["email"]
    /\ credentials[u.id] = data["password"]

C2_LoginOnlyWithCredentials ==
    [][req'.op = "login" =>
        /\ UNCHANGED <<Tables, files>>
        /\ resp'.status = 200 =>
             \E u \in users :
                /\ ValidLogin(req'.data, u)
                /\ resp'.body = [access_token |-> create_access_token(u.id)]
        /\ (Has(req'.data, {"email", "password"})
            /\ ~\E u \in users : ValidLogin(req'.data, u))
           => resp' = Message(401, "Invalid credentials")
        /\ (\E u \in users : ValidLogin(req'.data, u)) => resp'.status = 200]_vars

\* Alice is registered and a login with her email and another password was
\* refused.
C2_Witness ==
    /\ req.op = "login" /\ resp.status = 401
    /\ req.data = [email |-> Alice.email, password |-> "wrongpassword"]
    /\ \E u \in users : u.email = Alice.email /\ credentials[u.id] = Alice.password

\* The requester of a request: the identity of its token, None without one.
Requester(q) ==
    IF "token" \in DOMAIN q /\ q.token # None THEN Some(identity(q.token)) ELSE None

\* The requester of q is the owning teacher of a stored course with this id.
Owns(q, course_id) ==
    \E c \in courses : c.id = course_id /\ Requester(q) = Some(c.teacher_id)

\* C3: on update_course, delete_course, upload_material, list_course_students,
\* remove_student_from_course and mark_submission, a requester with a token who
\* is not the owning teacher of the course in the path is answered the one 404
\* 'Course not found or unauthorized access', whether the course is another
\* teacher's or does not exist, and no row and no stored file changes.
Guarded == {"update_course", "delete_course", "upload_material",
            "list_course_students", "remove_student_from_course",
            "mark_submission"}

C3_NotOwnerNotFound ==
    [][(/\ req'.op \in Guarded
        /\ req'.token # None
        /\ ~Owns(req', req'.course_id))
       => (resp' = course_not_found /\ UNCHANGED <<Tables, files>>)]_vars

\* Marking a stored submission through another teacher's course was refused.
C3_Witness ==
    /\ req.op = "mark_submission" /\ resp = course_not_found
    /\ \E c \in courses : c.id = req.course_id /\ Some(c.teacher_id) # Requester(req)
    /\ find_submission(Store, req.assignment_id, req.student_id) # None

\* C4: get_course and list_courses return a course's title and description
\* only to the course's owning teacher.
CoursesRead(q, r) ==
    IF r.status # 200 THEN {}
    ELSE IF q.op = "get_course" THEN {r.body.id}
    ELSE IF q.op = "list_courses" THEN {r.body.list[i].id : i \in DOMAIN r.body.list}
    ELSE {}

C4_ReadOnlyOwnCourses ==
    \A course_id \in CoursesRead(req, resp) : Owns(req, course_id)

\* C5: a successful enroll_student(course) with a token of identity u adds one
\* Enrollment row (course, u); a row (course, u) goes away only by a successful
\* remove_student_from_course(course, u); and the list the owning teacher gets
\* from list_course_students(course) has one entry per Enrollment row of the
\* course, in the order of the rows.
Enrolled(table, course_id, student_id) ==
    {e \in table : e.course_id = course_id /\ e.student_id = student_id}

C5_EnrollmentListed ==
    [][/\ (req'.op = "enroll_student" /\ resp'.status = 200) =>
            \E e \in enrollments' \ enrollments :
               /\ e.course_id = req'.course_id
               /\ Some(e.student_id) = Requester(req')
               /\ enrollments' = enrollments \cup {e}
       /\ \A e \in enrollments \ enrollments' :
            /\ req'.op = "remove_student_from_course" /\ resp'.status = 200
            /\ req'.course_id = e.course_id /\ req'.student_id = e.student_id
       /\ (req'.op = "list_course_students" /\ resp'.status = 200) =>
            LET rows == All({e \in enrollments : e.course_id = req'.course_id})
            IN /\ Owns(req', req'.course_id)
               /\ Len(resp'.body.list) = Len(rows)
               /\ \A i \in 1..Len(rows) :
                    resp'.body.list[i] = [student_id |-> rows[i].student_id]]_vars

\* The owner's list names one student twice, once per enrollment.
C5_Witness ==
    /\ req.op = "list_course_students" /\ resp.status = 200
    /\ Len(resp.body.list) = 2
    /\ resp.body.list[1] = resp.body.list[2]
    /\ Cardinality(Enrolled(enrollments, req.course_id, resp.body.list[1].student_id)) = 2

\* C6: after a successful mark_submission for (assignment, student), the
\* submission read back for (assignment, student) holds the marks and the
\* feedback of the request as they were sent, whatever the values; a key the
\* request does not hold is stored as null.
C6_MarksVerbatim ==
    [][(req'.op = "mark_submission" /\ resp'.status = 200) =>
        LET read == find_submission(Store', req'.assignment_id, req'.student_id)
        IN /\ read # None
           /\ read[1].marks = Get(req'.data, "marks")
           /\ read[1].feedback = Get(req'.data, "feedback")
           /\ ("marks" \notin DOMAIN req'.data => read[1].marks = None)
           /\ ("feedback" \notin DOMAIN req'.data => read[1].feedback = None)]_vars

\* Negative marks were stored as sent and the feedback, absent from the
\* request, is null.
C6_Witness ==
    /\ req.op = "mark_submission" /\ resp.status = 200
    /\ req.data = [marks |-> Some(-5)]
    /\ \E s \in submissions : s.marks = Some(-5) /\ s.feedback = None

\* C7: a successful delete_course(c) removes the Course row c and no other row
\* of any table: get_course(c) then answers 404, and the Enrollment rows and
\* the AssignmentSubmission rows, also those that refer to c, are as before.
C7_DeleteCourseOnly ==
    [][(req'.op = "delete_course" /\ resp'.status = 200) =>
        /\ \E c \in courses : c.id = req'.course_id /\ courses' = courses \ {c}
        /\ get_course(Store', req'.course_id).resp.status = 404
        /\ enrollments' = enrollments
        /\ submissions' = submissions
        /\ users' = users
        /\ Ids(assignments') = Ids(assignments)
        /\ files' = files]_vars

\* A course was deleted; an enrollment in it is still stored, and so is an
\* assignment that was its own.
C7_Witness ==
    /\ req.op = "delete_course" /\ resp.status = 200
    /\ \E e \in enrollments : e.course_id = req.course_id
    /\ \E a \in assignments : a.course_id = None

\* C9: add_assignment_to_course(c) with a token and a body that holds a name
\* and a due date of the expected format answers 201 and adds one Assignment
\* row with course_id = c, whoever owns c, and changes no Course row.
C9_AssignmentWithoutOwnership ==
    [][(/\ req'.op = "add_assignment_to_course"
        /\ req'.token # None
        /\ Has(req'.data, {"name", "due_date"})
        /\ strptime(req'.data["due_date"]) # None)
       => /\ resp'.status = 201
          /\ \E a \in assignments' \ assignments :
                /\ a.course_id = Some(req'.course_id)
                /\ a.id = resp'.body.id
                /\ assignments' = assignments \cup {a}
          /\ courses' = courses]_vars

\* An assignment was added to a course of another teacher.
C9_Witness ==
    /\ req.op = "add_assignment_to_course" /\ resp.status = 201
    /\ \E c \in courses : c.id = req.course_id /\ Some(c.teacher_id) # Requester(req)
    /\ \E a \in assignments : a.id = resp.body.id /\ a.course_id = Some(req.course_id)

\* C10: an upload by the owner of the course with a file whose name sanitizes
\* to a non-empty name n answers 201 and leaves the content stored under n,
\* and n alone, replaced: the stored files are keyed by n and not by course, so
\* after uploads of one name for two courses one file with the content of the
\* last upload is stored.
C10_SharedUploadDirectory ==
    [][(/\ req'.op = "upload_material"
        /\ Owns(req', req'.course_id)
        /\ "file" \in DOMAIN req'.form
        /\ secure_filename(req'.form["file"].filename) # <<>>)
       => LET n == secure_filename(req'.form["file"].filename)
          IN /\ resp'.status = 201
             /\ DOMAIN files' = DOMAIN files \cup {n}
             /\ files'[n] = req'.form["file"].content
             /\ \A m \in DOMAIN files \ {n} : files'[m] = files[m]
             /\ DOMAIN files' = DOMAIN uploaders']_vars

\* One name was uploaded for two courses and one file is stored, with the
\* content of the last upload.
C10_Witness ==
    /\ req.op = "upload_material" /\ resp.status = 201
    /\ \E n \in DOMAIN uploaders :
          /\ Cardinality(uploaders[n]) = 2
          /\ DOMAIN files = {n}
          /\ files[n] = req.form["file"].content
          /\ files[n] = "c2"

\* C8: two runs of one request sequence that differ only in the types the
\* users registered with get the same response from every token-protected
\* route and end in stores that differ in nothing but those types.
WithoutTypes(d) == [d EXCEPT !.users = {[u EXCEPT !.type = "any"] : u \in @}]

C8_TypeNeverRead ==
    /\ WithoutTypes(twin.db) = WithoutTypes(Store)
    /\ req.op \in TokenProtected => twin.resp = resp

\* A user who is a teacher in one run and a student in the other created a
\* course in both.
C8_Witness ==
    /\ req.op = "create_course" /\ resp.status = 201 /\ twin.resp.status = 201
    /\ \E u \in users, v \in twin.db.users :
          /\ Some(u.id) = Requester(req) /\ v.id = u.id
          /\ u.type = "teacher" /\ v.type = "student"

\* C11: a register request whose body lacks any of name, email, password and
\* type, or is no body at all, is answered 400 and adds no User row; the check
\* of the fields comes before the lookup of the email, so the answer is 400
\* and not 409 also when the email of the body is a stored user's.
RegisterFields == {"name", "email", "password", "type"}

C11_MissingFieldBeforeDuplicate ==
    [][(req'.op = "register" /\ ~Has(req'.data, RegisterFields))
       => /\ resp' = Abort400("Missing data for registration")
          /\ resp'.status = 400
          /\ UNCHANGED <<Tables, files>>]_vars

\* A registration without a name under Alice's stored email was answered 400.
C11_Witness ==
    /\ req.op = "register" /\ req.data = Without(Alice, "name")
    /\ resp.status = 400
    /\ \E u \in users : u.email = req.data["email"]

\* C12: a request that lacks a required field is answered 400 and leaves the
\* store unchanged: login without email or password, create_course without
\* title, add_assignment_to_course without name or due_date.
RequiredFields(op) ==
    CASE op = "login" -> {"email", "password"}
      [] op = "create_course" -> {"title"}
      [] op = "add_assignment_to_course" -> {"name", "due_date"}
      [] OTHER -> {}

C12_MissingFieldIs400 ==
    [][(/\ req'.op \in {"login", "create_course", "add_assignment_to_course"}
        /\ ("token" \in DOMAIN req' => req'.token # None)
        /\ ~Has(req'.data, RequiredFields(req'.op)))
       => (resp'.status = 400 /\ UNCHANGED <<Tables, files>>)]_vars

\* C13: a successful update_course(c) is the owning teacher's; it sets the
\* title and the description of the Course row c to the values the request
\* holds and keeps the stored value of a field the request does not hold,
\* answers the stored values, and leaves the id and the teacher_id of c, every
\* other Course row and every other table as they were.
C13_UpdateKeepsAbsentFields ==
    [][(req'.op = "update_course" /\ resp'.status = 200) =>
        \E c \in courses :
           LET n == [id |-> c.id,
                     teacher_id |-> c.teacher_id,
                     title |-> IF "title" \in DOMAIN req'.data
                               THEN req'.data["title"] ELSE c.title,
                     description |-> IF "description" \in DOMAIN req'.data
                                     THEN req'.data["description"] ELSE c.description]
           IN /\ c.id = req'.course_id
              /\ Requester(req') = Some(c.teacher_id)
              /\ courses' = (courses \ {c}) \cup {n}
              /\ resp'.body = [id |-> n.id, title |-> n.title,
                               description |-> n.description]
              /\ UNCHANGED <<users, assignments, enrollments, submissions, files>>]_vars

\* An update that holds a title alone changed the title of a course and kept
\* its description, and the other course is stored as it was created.
C13_Witness ==
    /\ req.op = "update_course" /\ resp.status = 200
    /\ req.data = [title |-> "Advanced Math"]
    /\ \E c \in courses :
          /\ c.id = req.course_id
          /\ c.title = "Advanced Math" /\ c.description = Some("Basic Math")
    /\ \E c \in courses : c.id # req.course_id /\ c.title = "Math 101"

\* C14: under every interleaving of register requests whose lookup by email
\* and whose insert and commit are separate steps, no two stored User rows
\* hold one email, and of the registrations under one email at most one is
\* answered 201.
C14_EmailStaysUnique ==
    /\ \A u, v \in users : u.email = v.email => u = v
    /\ \A e \in DOMAIN created : created[e] <= 1

\* Two registrations under one new email passed the lookup; the first to
\* commit was answered 201 and the second was refused at its commit.
C14_Witness ==
    /\ req.op = "register" /\ resp = server_error
    /\ req.data = Mallory
    /\ created[Mallory.email] = 1
    /\ \E u \in users : u.email = Mallory.email /\ u.name = Alice.name

\* C15: mark_submission uses the course id of the path for the ownership
\* check alone and selects the submission by assignment id and student id: a
\* request of the owner of the course in the path for a stored submission is
\* answered 200 and sets the marks and the feedback of that submission,
\* whichever course the assignment of the submission belongs to.
C15_MarksAcrossCourses ==
    [][(/\ req'.op = "mark_submission"
        /\ Owns(req', req'.course_id)
        /\ find_submission(Store, req'.assignment_id, req'.student_id) # None)
       => LET old == find_submission(Store, req'.assignment_id, req'.student_id)[1]
          IN /\ resp'.status = 200
             /\ submissions' =
                   (submissions \ {old})
                   \cup {[old EXCEPT !.marks = Get(req'.data, "marks"),
                                     !.feedback = Get(req'.data, "feedback")]}]_vars

\* A teacher named a course of their own in the path and marked a submission
\* to an assignment of a course that is another teacher's.
C15_Witness ==
    /\ req.op = "mark_submission" /\ resp.status = 200
    /\ \E s \in submissions, a \in assignments, c \in courses :
          /\ s.assignment_id = req.assignment_id /\ s.student_id = req.student_id
          /\ s.marks = Get(req.data, "marks") /\ s.marks # None
          /\ a.id = s.assignment_id
          /\ a.course_id = Some(c.id)
          /\ c.id # req.course_id
          /\ Some(c.teacher_id) # Requester(req)

====
